---- MODULE Spec2Model ----
(***************************************************************************)
(* Model of src/app.py: the invoice processing route (processar_notas),    *)
(* its helpers (limpar_moeda, gerar_hash) and the record store routes      *)
(* (get_notas, save_notas, update_nota).                                   *)
(*                                                                         *)
(* The store routes run one request per thread, each on its own database   *)
(* connection: a save request is a SELECT (execute, then fetchone) and an  *)
(* INSERT per record and one commit, an update request an UPDATE and a     *)
(* commit, a listing request a SELECT (execute, then fetchall), and the    *)
(* steps of two requests interleave under the locks of the database file.  *)
(*                                                                         *)
(* Text is a sequence of one-character strings, so that replace, strip,    *)
(* slicing, parsing and formatting are computed character by character.    *)
(* The characters of the model are those a string of this module can hold, *)
(* U+0000 to U+00FF but the grave accent U+0060.  A character is written   *)
(* as itself, except the                                                   *)
(* control characters: "\t" U+0009, "\n" U+000A, "\f" U+000C, "\r" U+000D,  *)
(* and in caret notation "^@" U+0000, "^A" U+0001 ... "^H" U+0008,         *)
(* "^K" U+000B, "^N" U+000E ... "^Z" U+001A, "^[" U+001B, "^\\" U+001C,     *)
(* "^]" U+001D, "^^" U+001E, "^_" U+001F and "^?" U+007F; each of these    *)
(* stands for one character.                                               *)
(***************************************************************************)
EXTENDS Integers, Sequences, FiniteSets, TLC

VARIABLES
    clock,      \* days elapsed on the host clock since StartDay (datetime.now())
    pc,         \* position of processar_notas: "idle", "loop", "done"
    req,        \* the upload being processed: modoData, dataCustom, df (columns,
                \* rows, index)
    resultado,  \* resultado_processamento, the records appended so far
    resp,       \* the response of the last finished processing request
    notas,      \* table notas of the database: the committed rows, in id order
    con,        \* per request thread of the store routes: its position, request,
                \* locals, uncommitted rows, unfetched rows and response
    trava,      \* the holder of the database's write lock: the thread whose
                \* connection holds it, "solta" for the connection of a request
                \* that has returned and is not collected yet, or "none"
    pendente    \* whether a commit of the holder of the write lock failed, which
                \* leaves its connection waiting for the readers to finish and
                \* keeps new readers out

vars == <<clock, pc, req, resultado, resp, notas, con, trava, pendente>>
procVars == <<clock, pc, req, resultado, resp>>
storeVars == <<notas, con, trava, pendente>>

----------------------------------------------------------------------------
(* Bounds of the model *)

MaxRows == 2      \* rows of an uploaded table
MaxTicks == 1     \* midnights the host clock may cross
MaxNotas == 2     \* records in the bodies of the save requests in flight

----------------------------------------------------------------------------
(* Text helpers: Python str operations on sequences of characters *)

Digit == {"0", "1", "2", "3", "4", "5", "6", "7", "8", "9"}

DigitVal(c) ==
    CASE c = "0" -> 0 [] c = "1" -> 1 [] c = "2" -> 2 [] c = "3" -> 3
      [] c = "4" -> 4 [] c = "5" -> 5 [] c = "6" -> 6 [] c = "7" -> 7
      [] c = "8" -> 8 [] c = "9" -> 9

DigitChar(d) == <<"0", "1", "2", "3", "4", "5", "6", "7", "8", "9">>[d + 1]

AllDigits(s) == \A i \in 1..Len(s) : s[i] \in Digit

RECURSIVE NatOf(_)
NatOf(s) == IF s = <<>> THEN 0
            ELSE 10 * NatOf(SubSeq(s, 1, Len(s) - 1)) + DigitVal(s[Len(s)])

RECURSIVE NatStr(_)
NatStr(n) == IF n < 10 THEN <<DigitChar(n)>>
             ELSE NatStr(n \div 10) \o <<DigitChar(n % 10)>>

\* zero-padded two-digit field (%d, %m of strftime; the cents of :.2f)
Pad2(n) == IF n < 10 THEN <<"0", DigitChar(n)>> ELSE NatStr(n)

StartsWith(s, p) == Len(s) >= Len(p) /\ SubSeq(s, 1, Len(p)) = p

Drop(s, n) == SubSeq(s, n + 1, Len(s))

\* str.replace(pat, rep): left to right, non-overlapping, pat non-empty
RECURSIVE Replace(_, _, _)
Replace(s, pat, rep) ==
    IF s = <<>> THEN <<>>
    ELSE IF StartsWith(s, pat) THEN rep \o Replace(Drop(s, Len(pat)), pat, rep)
    ELSE <<s[1]>> \o Replace(Tail(s), pat, rep)

\* the characters str.isspace() holds for, which str.strip() removes: U+0009
\* to U+000D, U+001C to U+001F, the space, U+0085 and the no-break space U+00A0
Whitespace ==
    {"\t", "\n", "^K", "\f", "\r", "^\\", "^]", "^^", "^_", " ", "", " "}

RECURSIVE LStrip(_)
LStrip(s) == IF s # <<>> /\ s[1] \in Whitespace THEN LStrip(Tail(s)) ELSE s

RECURSIVE RStrip(_)
RStrip(s) == IF s # <<>> /\ s[Len(s)] \in Whitespace
             THEN RStrip(SubSeq(s, 1, Len(s) - 1)) ELSE s

\* str.strip()
Strip(s) == RStrip(LStrip(s))

\* str.lower() of one character: the capitals A to Z, and U+00C0 to U+00DE
\* but the multiplication sign U+00D7
LowerChar(c) ==
    CASE c = "A" -> "a" [] c = "B" -> "b" [] c = "C" -> "c" [] c = "D" -> "d"
      [] c = "E" -> "e" [] c = "F" -> "f" [] c = "G" -> "g" [] c = "H" -> "h"
      [] c = "I" -> "i" [] c = "J" -> "j" [] c = "K" -> "k" [] c = "L" -> "l"
      [] c = "M" -> "m" [] c = "N" -> "n" [] c = "O" -> "o" [] c = "P" -> "p"
      [] c = "Q" -> "q" [] c = "R" -> "r" [] c = "S" -> "s" [] c = "T" -> "t"
      [] c = "U" -> "u" [] c = "V" -> "v" [] c = "W" -> "w" [] c = "X" -> "x"
      [] c = "Y" -> "y" [] c = "Z" -> "z"
      [] c = "À" -> "à" [] c = "Á" -> "á" [] c = "Â" -> "â" [] c = "Ã" -> "ã"
      [] c = "Ä" -> "ä" [] c = "Å" -> "å" [] c = "Æ" -> "æ" [] c = "Ç" -> "ç"
      [] c = "È" -> "è" [] c = "É" -> "é" [] c = "Ê" -> "ê" [] c = "Ë" -> "ë"
      [] c = "Ì" -> "ì" [] c = "Í" -> "í" [] c = "Î" -> "î" [] c = "Ï" -> "ï"
      [] c = "Ð" -> "ð" [] c = "Ñ" -> "ñ" [] c = "Ò" -> "ò" [] c = "Ó" -> "ó"
      [] c = "Ô" -> "ô" [] c = "Õ" -> "õ" [] c = "Ö" -> "ö" [] c = "Ø" -> "ø"
      [] c = "Ù" -> "ù" [] c = "Ú" -> "ú" [] c = "Û" -> "û" [] c = "Ü" -> "ü"
      [] c = "Ý" -> "ý" [] c = "Þ" -> "þ"
      [] OTHER -> c

Lower(s) == [i \in 1..Len(s) |-> LowerChar(s[i])]

\* s[:n]
Take(s, n) == SubSeq(s, 1, IF Len(s) < n THEN Len(s) ELSE n)

\* position of the first occurrence of character c in s, 0 if none
RECURSIVE IndexOf(_, _)
IndexOf(s, c) ==
    IF s = <<>> THEN 0
    ELSE IF s[1] = c THEN 1
    ELSE LET r == IndexOf(Tail(s), c) IN IF r = 0 THEN 0 ELSE r + 1

----------------------------------------------------------------------------
(* Cell values: what pandas hands over for a cell, and Python values       *)
(* k = "nan"  float NaN (an empty cell)                                    *)
(* k = "inf"  float infinity, negative when neg                            *)
(* k = "str"  text s                                                       *)
(* k = "int"  a Python int n                                               *)
(* k = "num"  a finite float: the double nearest to the decimal            *)
(*            n / 10^e, negative when neg (neg with n = 0 is -0.0);        *)
(*            n has no trailing zero while e > 0.  The decimals of the     *)
(*            model have n below 2^31 and e at most 9.                     *)
(* k = "date" a datetime, n = year*10000 + month*100 + day                 *)
(* k = "none" Python None (row.get of an absent column, no default)        *)

Cell(k, s, n, e, neg) == [k |-> k, s |-> s, n |-> n, e |-> e, neg |-> neg]

NaN == Cell("nan", <<>>, 0, 0, FALSE)

None == Cell("none", <<>>, 0, 0, FALSE)

Inf(neg) == Cell("inf", <<>>, 0, 0, neg)

Str(t) == Cell("str", t, 0, 0, FALSE)

PyInt(i) == Cell("int", <<>>, i, 0, FALSE)

\* a tuple, the row label of a table with more than one index column
Tupla == Cell("tuple", <<>>, 0, 0, FALSE)

Date(y, m, d) == Cell("date", <<>>, y * 10000 + m * 100 + d, 0, FALSE)

RECURSIVE Pow10(_)
Pow10(k) == IF k = 0 THEN 1 ELSE 10 * Pow10(k - 1)

\* the float of the decimal n / 10^e, trailing zeros of the decimals dropped
RECURSIVE Float(_, _, _)
Float(neg, n, e) ==
    IF e > 0 /\ n % 10 = 0 THEN Float(neg, n \div 10, e - 1)
    ELSE Cell("num", <<>>, n, e, neg)

Abs(i) == IF i < 0 THEN 0 - i ELSE i

\* the float of an amount given in hundredths
Num(c) == Float(c < 0, Abs(c), 2)

\* the calendar date a "date" value holds
DateOf(v) == [y |-> v.n \div 10000, m |-> (v.n \div 100) % 100, d |-> v.n % 100]

SignStr(neg) == IF neg THEN <<"-">> ELSE <<>>

\* n written with exactly w digits
RECURSIVE PadN(_, _)
PadN(n, w) == IF w = 0 THEN <<>> ELSE PadN(n \div 10, w - 1) \o <<DigitChar(n % 10)>>

\* repr(float): the shortest digits that read back as the float, which are
\* those of n; with the point decpt places after the first digit, the
\* notation has an exponent when decpt <= -4 (decpt > 16 is beyond the
\* decimals of the model)
FloatRepr(v) ==
    IF v.n # 0 /\ Len(NatStr(v.n)) - v.e <= -4
    THEN SignStr(v.neg) \o <<Head(NatStr(v.n))>>
             \o (IF Len(NatStr(v.n)) > 1 THEN <<".">> \o Tail(NatStr(v.n)) ELSE <<>>)
             \o <<"e", "-">> \o Pad2(1 + v.e - Len(NatStr(v.n)))
    ELSE SignStr(v.neg) \o NatStr(v.n \div Pow10(v.e)) \o <<".">>
             \o (IF v.e = 0 THEN <<"0">> ELSE PadN(v.n % Pow10(v.e), v.e))

\* str(v)
PyStr(v) ==
    CASE v.k = "str" -> v.s
      [] v.k = "nan" -> <<"n", "a", "n">>
      [] v.k = "inf" -> SignStr(v.neg) \o <<"i", "n", "f">>
      [] v.k = "none" -> <<"N", "o", "n", "e">>
      [] v.k = "int" -> SignStr(v.n < 0) \o NatStr(Abs(v.n))
      [] v.k = "num" -> FloatRepr(v)
      [] v.k = "date" -> PadN(DateOf(v).y, 4) \o <<"-">> \o Pad2(DateOf(v).m) \o <<"-">>
                          \o Pad2(DateOf(v).d) \o <<" ", "0", "0", ":", "0", "0", ":", "0", "0">>

\* pd.notna(v)
notna(v) == v.k \notin {"nan", "none"}

\* truth value of a Python object (NaN is a non-zero float: true)
Truthy(v) ==
    CASE v.k = "none" -> FALSE
      [] v.k = "str" -> v.s # <<>>
      [] v.k \in {"int", "num"} -> v.n # 0
      [] OTHER -> TRUE

\* a or b
Or(a, b) == IF Truthy(a) THEN a ELSE b

----------------------------------------------------------------------------
(* Currency: limpar_moeda and the display format of lines 233-235 *)

\* the characters of the model below U+007F
Ascii ==
    {"^@", "^A", "^B", "^C", "^D", "^E", "^F", "^G", "^H", "\t", "\n", "^K", "\f", "\r",
     "^N", "^O", "^P", "^Q", "^R", "^S", "^T", "^U", "^V", "^W", "^X", "^Y", "^Z", "^[",
     "^\\", "^]", "^^", "^_",
     " ", "!", "\"", "#", "$", "%", "&", "'", "(", ")", "*", "+", ",", "-", ".", "/",
     "0", "1", "2", "3", "4", "5", "6", "7", "8", "9", ":", ";", "<", "=", ">", "?",
     "@", "A", "B", "C", "D", "E", "F", "G", "H", "I", "J", "K", "L", "M", "N", "O",
     "P", "Q", "R", "S", "T", "U", "V", "W", "X", "Y", "Z", "[", "\\", "]", "^", "_",
     "a", "b", "c", "d", "e", "f", "g", "h", "i", "j", "k", "l", "m", "n", "o",
     "p", "q", "r", "s", "t", "u", "v", "w", "x", "y", "z", "{", "|", "}", "~"}

\* what float() makes of a text before it reads it: a character below U+007F
\* stays, any other whitespace becomes a space, and the text ends in "?" at
\* the first character that is neither (no character of the model above
\* U+007F is a decimal digit)
RECURSIVE TransformDecimalAndSpaceToASCII(_)
TransformDecimalAndSpaceToASCII(s) ==
    IF s = <<>> THEN <<>>
    ELSE IF s[1] \in Ascii THEN <<s[1]>> \o TransformDecimalAndSpaceToASCII(Tail(s))
    ELSE IF s[1] \in Whitespace THEN <<" ">> \o TransformDecimalAndSpaceToASCII(Tail(s))
    ELSE <<"?">>

\* the whitespace float() skips at both ends of the transformed text
PyIsSpace == {" ", "\t", "\n", "^K", "\f", "\r"}

RECURSIVE SkipLeft(_)
SkipLeft(s) == IF s # <<>> /\ s[1] \in PyIsSpace THEN SkipLeft(Tail(s)) ELSE s

RECURSIVE SkipRight(_)
SkipRight(s) == IF s # <<>> /\ s[Len(s)] \in PyIsSpace
                THEN SkipRight(SubSeq(s, 1, Len(s) - 1)) ELSE s

\* digits with single "_" between them (the digitpart of a float literal)
DigitPart(s) ==
    /\ s # <<>>
    /\ s[1] \in Digit /\ s[Len(s)] \in Digit
    /\ \A i \in 1..Len(s) : s[i] \in Digit \cup {"_"}
    /\ \A i \in 1..(Len(s) - 1) : ~(s[i] = "_" /\ s[i + 1] = "_")

DigitsOf(s) == Replace(s, <<"_">>, <<>>)

\* float() of a literal in its parts: the sign, the digits before and after
\* the point, and the exponent (xneg its sign, xd its digits) when there is one
FloatDasPartes(neg, ip, fp, temexp, xneg, xd) ==
    IF ~ /\ ip = <<>> \/ DigitPart(ip)
         /\ fp = <<>> \/ DigitPart(fp)
         /\ ip # <<>> \/ fp # <<>>
         /\ ~temexp \/ DigitPart(xd)
    THEN [ok |-> FALSE, v |-> NaN]
    ELSE IF NatOf(DigitsOf(ip) \o DigitsOf(fp)) = 0
    THEN [ok |-> TRUE, v |-> Float(neg, 0, 0)]
    ELSE IF xneg \/ NatOf(DigitsOf(xd)) <= Len(DigitsOf(fp))
    THEN [ok |-> TRUE,
          v |-> Float(neg, NatOf(DigitsOf(ip) \o DigitsOf(fp)),
                      IF xneg THEN Len(DigitsOf(fp)) + NatOf(DigitsOf(xd))
                      ELSE Len(DigitsOf(fp)) - NatOf(DigitsOf(xd)))]
    ELSE [ok |-> TRUE,
          v |-> Float(neg, NatOf(DigitsOf(ip) \o DigitsOf(fp))
                               * Pow10(NatOf(DigitsOf(xd)) - Len(DigitsOf(fp))), 0)]

\* the mantissa m split at its point (position p, 0 if none)
FloatDaMantissa(neg, m, p, temexp, x) ==
    FloatDasPartes(neg,
                   IF p = 0 THEN m ELSE SubSeq(m, 1, p - 1),
                   IF p = 0 THEN <<>> ELSE Drop(m, p),
                   temexp,
                   x # <<>> /\ x[1] = "-",
                   IF x # <<>> /\ x[1] \in {"+", "-"} THEN Tail(x) ELSE x)

\* the unsigned literal u in lower case split at its exponent mark (position
\* q, 0 if none)
FloatDoExpoente(neg, u, q) ==
    IF q = 0
    THEN FloatDaMantissa(neg, u, IndexOf(u, "."), FALSE, <<>>)
    ELSE FloatDaMantissa(neg, SubSeq(u, 1, q - 1), IndexOf(SubSeq(u, 1, q - 1), "."),
                         TRUE, Drop(u, q))

FloatSemSinal(neg, u) ==
    IF u \in {<<"i", "n", "f">>, <<"i", "n", "f", "i", "n", "i", "t", "y">>}
    THEN [ok |-> TRUE, v |-> Inf(neg)]
    ELSE IF u = <<"n", "a", "n">>
    THEN [ok |-> TRUE, v |-> NaN]
    ELSE FloatDoExpoente(neg, u, IndexOf(u, "e"))

\* the literal w without blanks around it; the letters of inf, nan and the
\* exponent mark are read in either case
FloatDoTexto(w) ==
    FloatSemSinal(w # <<>> /\ w[1] = "-",
                  Lower(IF w # <<>> /\ w[1] \in {"+", "-"} THEN Tail(w) ELSE w))

\* float(t): [ok, v]; ok = FALSE is ValueError.  The text is transformed,
\* its ends are skipped, and the rest is read as
\* [sign] (inf | infinity | nan | decimal [exponent]).
PyFloat(t) == FloatDoTexto(SkipRight(SkipLeft(TransformDecimalAndSpaceToASCII(t))))

limpar_moeda(valor) ==
    IF valor.k \in {"int", "num", "nan", "inf"}
    THEN valor                         \* isinstance(valor, (int, float))
    ELSE \* float(str(valor).replace(...).strip()); except: return 0.0
         CHOOSE v \in {IF f.ok THEN f.v ELSE Float(FALSE, 0, 0) :
                           f \in {PyFloat(Strip(Replace(Replace(Replace(PyStr(valor),
                                      <<"R", "$">>, <<>>), <<".">>, <<>>), <<",">>, <<".">>)))}} :
             TRUE

RECURSIVE BitLen(_)
BitLen(i) == IF i = 0 THEN 0 ELSE 1 + BitLen(i \div 2)

\* The binary expansion of r/d (0 <= r < d) by long division.  left is the
\* number of significand bits still to produce (53 in all, counted from the
\* first 1 bit; started says it has been seen); last is the bit produced
\* last.  The result says where the double lies: 1 above the exact value,
\* -1 below it, 0 on it (round to nearest, ties to even).
RECURSIVE Arredonda(_, _, _, _, _)
Arredonda(r, d, left, started, last) ==
    IF r = 0 THEN 0
    ELSE IF left = 0
    THEN (IF 2 * r > d THEN 1
          ELSE IF 2 * r < d THEN 0 - 1
          ELSE IF last = 1 THEN 1 ELSE 0 - 1)
    ELSE LET bit == IF 2 * r >= d THEN 1 ELSE 0
             r2 == 2 * r - bit * d
         IN  IF started \/ bit = 1
             THEN Arredonda(r2, d, left - 1, TRUE, bit)
             ELSE Arredonda(r2, d, left, FALSE, bit)

\* where the double of n / 10^e lies with respect to n / 10^e
DoubleCmp(n, e) ==
    LET d == Pow10(e)
        i == n \div d
    IN  Arredonda(n % d, d, 53 - BitLen(i), i > 0, i % 2)

\* |v| as :.2f shows it, i whole units and c hundredths: the double, rounded
\* to the nearest hundredth (an exact half goes to the even one)
Arredondado(v) ==
    IF v.e <= 2
    THEN [i |-> v.n \div Pow10(v.e), c |-> (v.n % Pow10(v.e)) * Pow10(2 - v.e)]
    ELSE LET p == Pow10(v.e - 2)
             q == v.n \div p
             r == v.n % p
             up == IF 2 * r # p THEN 2 * r > p
                   ELSE LET c == DoubleCmp(v.n, v.e)
                        IN  IF c = 0 THEN q % 2 = 1 ELSE c = 1
             h == IF up THEN q + 1 ELSE q
         IN  [i |-> h \div 100, c |-> h % 100]

\* the "," grouping of format spec ",": a separator every three digits
RECURSIVE Group(_)
Group(ds) == IF Len(ds) <= 3 THEN ds
             ELSE Group(SubSeq(ds, 1, Len(ds) - 3)) \o <<",">> \o SubSeq(ds, Len(ds) - 2, Len(ds))

\* f"{v:,.2f}"
Fmt2f(v) ==
    CASE v.k = "nan" -> <<"n", "a", "n">>
      [] v.k = "inf" -> SignStr(v.neg) \o <<"i", "n", "f">>
      [] v.k = "int" -> SignStr(v.n < 0) \o Group(NatStr(Abs(v.n))) \o <<".", "0", "0">>
      [] v.k = "num" -> LET a == Arredondado(v)
                        IN  SignStr(v.neg) \o Group(NatStr(a.i)) \o <<".">> \o Pad2(a.c)

\* f"R$ {v:,.2f}".replace('.', ',')
FormatMoeda(v) == Replace(<<"R", "$", " ">> \o Fmt2f(v), <<".">>, <<",">>)

----------------------------------------------------------------------------
(* Dates: the host clock, strptime('%Y-%m-%d') and strftime('%d/%m/%Y') *)

StartDay == [y |-> 2024, m |-> 12, d |-> 31]

IsLeap(y) == (y % 4 = 0 /\ y % 100 # 0) \/ y % 400 = 0

DaysIn(y, m) ==
    IF m = 2 THEN (IF IsLeap(y) THEN 29 ELSE 28)
    ELSE IF m \in {4, 6, 9, 11} THEN 30 ELSE 31

NextDay(dt) ==
    IF dt.d < DaysIn(dt.y, dt.m) THEN [dt EXCEPT !.d = dt.d + 1]
    ELSE IF dt.m < 12 THEN [y |-> dt.y, m |-> dt.m + 1, d |-> 1]
    ELSE [y |-> dt.y + 1, m |-> 1, d |-> 1]

RECURSIVE AddDays(_, _)
AddDays(dt, k) == IF k = 0 THEN dt ELSE AddDays(NextDay(dt), k - 1)

\* datetime.now() when the clock reads c
Now(c) == AddDays(StartDay, c)

\* dt.strftime("%d/%m/%Y"), for the four-digit years of the model
strftime(dt) == Pad2(dt.d) \o <<"/">> \o Pad2(dt.m) \o <<"/">> \o NatStr(dt.y)

\* the text matches %m: 1[0-2] | 0[1-9] | [1-9]
MatchesMonth(t) ==
    \/ Len(t) = 2 /\ AllDigits(t) /\ NatOf(t) \in 1..12
    \/ Len(t) = 1 /\ AllDigits(t) /\ NatOf(t) \in 1..9

\* the text matches %d: 3[0-1] | [1-2]\d | 0[1-9] | [1-9] | " "[1-9]
MatchesDay(t) ==
    \/ Len(t) = 2 /\ AllDigits(t) /\ NatOf(t) \in 1..31
    \/ Len(t) = 1 /\ AllDigits(t) /\ NatOf(t) \in 1..9
    \/ Len(t) = 2 /\ t[1] = " " /\ t[2] \in Digit /\ DigitVal(t[2]) \in 1..9

\* datetime.strptime(t, '%Y-%m-%d'): [ok, dt]; ok = FALSE is ValueError
strptime(t) ==
    LET p1 == IndexOf(t, "-")
        ys == SubSeq(t, 1, p1 - 1)
        r1 == Drop(t, p1)
        p2 == IndexOf(r1, "-")
        ms == SubSeq(r1, 1, p2 - 1)
        ds == Drop(r1, p2)
        shape == /\ p1 > 0 /\ p2 > 0
                 /\ Len(ys) = 4 /\ AllDigits(ys)
                 /\ MatchesMonth(ms) /\ MatchesDay(ds)
        y == NatOf(ys)
        m == NatOf(ms)
        d == NatOf(Strip(ds))
        ok == shape /\ y >= 1 /\ d <= DaysIn(y, m)
    IN  [ok |-> ok, dt |-> IF ok THEN [y |-> y, m |-> m, d |-> d] ELSE StartDay]

----------------------------------------------------------------------------
(* Texts *)

(* Headers of the spreadsheet that the code looks up *)
H_RespFin == <<"R", "e", "s", "p", ".", " ", "F", "i", "n">>    \* 'Resp. Fin'

H_RespFin2 == <<"R", "e", "s", "p", " ", "F", "i", "n">>    \* 'Resp Fin'

H_RespFin3 == <<"R", "e", "s", "p", ".", " ", "F", "i", "n", ".">>    \* 'Resp. Fin.'

H_Nome == <<"N", "o", "m", "e">>    \* 'Nome'

H_Cliente == <<"C", "l", "i", "e", "n", "t", "e">>    \* 'Cliente'

H_RazaoSocial == <<"R", "a", "z", "ã", "o", " ", "S", "o", "c", "i", "a", "l">>    \* 'Razão Social'

H_Data == <<"D", "a", "t", "a">>    \* 'Data'

H_VDevido == <<"V", ".", " ", "D", "e", "v", "i", "d", "o">>    \* 'V. Devido'

H_VReceb == <<"V", ".", " ", "R", "e", "c", "e", "b">>    \* 'V. Receb'

H_VDesc == <<"V", ".", " ", "D", "e", "s", "c">>    \* 'V. Desc'

H_Origem == <<"O", "r", "i", "g", "e", "m">>    \* 'Origem'

H_CpfCnpj == <<"C", "P", "F", "/", "C", "N", "P", "J">>    \* 'CPF/CNPJ'

H_Cpf == <<"C", "P", "F">>    \* 'CPF'

H_Titulo == <<"T", "í", "t", "u", "l", "o">>    \* 'Título'

H_Especie == <<"E", "s", "p", "é", "c", "i", "e">>    \* 'Espécie'

H_PContas == <<"P", ".", " ", "C", "o", "n", "t", "a", "s">>    \* 'P. Contas'

H_CpfResp == <<"C", "P", "F", " ", "R", "e", "s", "p">>    \* 'CPF Resp'

H_Venc == <<"V", "e", "n", "c">>    \* 'Venc'

(* Literals of the code *)
T_Consumidor == <<"C", "o", "n", "s", "u", "m", "i", "d", "o", "r">>    \* 'Consumidor'

T_Traco == <<"-">>    \* '-'

T_Servico == <<"S", "e", "r", "v", "i", "ç", "o">>    \* 'Serviço'

T_NFe == <<"N", "F", "-", "e">>    \* 'NF-e'

T_Fidelizado == <<"F", "i", "d", "e", "l", "i", "z", "a", "d", "o">>    \* 'Fidelizado'

T_Vazio == <<>>    \* ''

T_NF == <<"N", "F", "-">>    \* 'NF-'

T_Sep == <<" ", "-", " ">>    \* ' - '

K_respfin == <<"r", "e", "s", "p", "f", "i", "n">>    \* 'respfin'

K_nome == <<"n", "o", "m", "e">>    \* 'nome'

K_cliente == <<"c", "l", "i", "e", "n", "t", "e">>    \* 'cliente'

K_razaosocial == <<"r", "a", "z", "a", "o", "s", "o", "c", "i", "a", "l">>    \* 'razaosocial'

(* Headers and cell texts of the uploads of the model *)
H_NOME == <<"N", "O", "M", "E">>    \* 'NOME'

H_NomeEspacos == <<" ", "N", "o", "m", "e", " ">>    \* ' Nome '

H_RazaoSemTil == <<"R", "a", "z", "a", "o", " ", "S", "o", "c", "i", "a", "l">>    \* 'Razao Social'

T_Bob == <<"B", "o", "b">>    \* 'Bob'

T_A == <<"A">>    \* 'A'

T_Ana == <<"A", "n", "a">>    \* 'Ana'

T_Longo == <<"M", "a", "r", "i", "a", " ", "A", "p", "a", "r", "e", "c", "i", "d", "a", " ", "d", "a", " ", "S", "i", "l", "v", "a", " ", "S", "a", "n", "t", "o", "s", " ", "O", "l", "i", "v", "e", "i", "r", "a">>    \* 'Maria Aparecida da Silva Santos Oliveira'

T_Ctrl == <<"Z", "e", "^A">>    \* 'Ze^A'

T_1234_56 == <<"R", "$", " ", "1", ".", "2", "3", "4", ",", "5", "6">>    \* 'R$ 1.234,56'

T_12_34 == <<"R", "$", " ", "1", "2", ",", "3", "4">>    \* 'R$ 12,34'

T_abc == <<"a", "b", "c">>    \* 'abc'

T_menos5 == <<"-", "5", ",", "0", "0">>    \* '-5,00'

T_inf == <<"i", "n", "f">>    \* 'inf'

T_2_999 == <<"2", ",", "9", "9", "9">>    \* '2,999'

T_nbsp_12_34 == <<"R", "$", " ", "1", "2", ",", "3", "4">>    \* 'R$\xa012,34' (no-break space)

T_Cpf123 == <<"1", "2", "3">>    \* '123'

T_Cpf456 == <<"4", "5", "6">>    \* '456'

T_Cpf789 == <<"7", "8", "9">>    \* '789'

T_Boleto == <<"B", "o", "l", "e", "t", "o">>    \* 'Boleto'

T_Mensal == <<"M", "e", "n", "s", "a", "l">>    \* 'Mensal'

T_Loja == <<"L", "o", "j", "a">>    \* 'Loja'

T_Plano == <<"M", "e", "n", "s", "a", "l", "i", "s", "t", "a">>    \* 'Mensalista'

T_DataTexto == <<"0", "2", "/", "0", "1", "/", "2", "0", "2", "4">>    \* '02/01/2024'

T_VencTexto == <<"1", "0", "/", "0", "1", "/", "2", "0", "2", "5">>    \* '10/01/2025'

D_Valida == <<"2", "0", "2", "4", "-", "0", "3", "-", "0", "5">>    \* '2024-03-05'

D_Invalida == <<"n", "o", "t", "-", "a", "-", "d", "a", "t", "e">>    \* 'not-a-date'

D_Fev30 == <<"2", "0", "2", "4", "-", "0", "2", "-", "3", "0">>    \* '2024-02-30'

D_SemZeros == <<"2", "0", "2", "4", "-", "3", "-", "5">>    \* '2024-3-5'

D_ValidaBR == <<"0", "5", "/", "0", "3", "/", "2", "0", "2", "4">>    \* '05/03/2024'

----------------------------------------------------------------------------
(* The table df: columns is the header row, rows the cells by position,    *)
(* index the row labels                                                    *)
(*                                                                         *)
(* An uploaded file is given as pandas tokenizes it: tipo is "csv" when    *)
(* the file name ends in '.csv' and "xlsx" otherwise, columns the texts of *)
(* the header line, rows the data lines as typed cells (every data line of *)
(* a file has as many fields as the first), legivel whether pd.read_csv    *)
(* (the utf-8 attempt of line 163 or the latin1 one of line 166) or        *)
(* pd.read_excel returns a table instead of raising.                       *)

T_Unnamed == <<"U", "n", "n", "a", "m", "e", "d", ":", " ">>    \* 'Unnamed: '

\* the fields the data lines have beyond the header line
Sobra(file) ==
    IF file.rows = <<>> \/ Len(file.rows[1]) <= Len(file.columns) THEN 0
    ELSE Len(file.rows[1]) - Len(file.columns)

\* the columns pandas gives the table: pd.read_excel names the columns beyond
\* the header 'Unnamed: <position>', pd.read_csv takes the leading fields
\* beyond the header as the row labels
ColunasDoArquivo(file) ==
    IF file.tipo = "csv" THEN file.columns
    ELSE file.columns
             \o [j \in 1..Sobra(file) |-> T_Unnamed \o NatStr(Len(file.columns) + j - 1)]

\* a data line as a row of the table: without the leading fields that are
\* row labels, a short line filled up with NaN
LinhaDoArquivo(file, line) ==
    LET d == IF file.tipo = "csv" THEN Sobra(file) ELSE 0
        n == Len(ColunasDoArquivo(file))
    IN  [i \in 1..n |-> IF d + i <= Len(line) THEN line[d + i] ELSE NaN]

\* the label of the k-th row (k from 1): pd.read_csv is called without
\* index_col, so a file whose data lines have one field more than the header
\* gets its first field as the label and one with more a tuple of them;
\* otherwise the label is the position, from 0
Rotulo(file, k) ==
    IF file.tipo = "csv" /\ Sobra(file) = 1 THEN file.rows[k][1]
    ELSE IF file.tipo = "csv" /\ Sobra(file) > 1 THEN Tupla
    ELSE PyInt(k - 1)

\* lines 161-170: pd.read_csv / pd.read_excel, then df.columns.str.strip()
ReadFile(file) ==
    [columns |-> [i \in 1..Len(ColunasDoArquivo(file)) |-> Strip(ColunasDoArquivo(file)[i])],
     rows |-> [k \in 1..Len(file.rows) |-> LinhaDoArquivo(file, file.rows[k])],
     index |-> [k \in 1..Len(file.rows) |-> Rotulo(file, k)]]

\* b in df.columns
HasCol(cols, b) == \E i \in 1..Len(cols) : cols[i] = b

\* row.get(key, default)
Get(cols, row, key, default) ==
    IF HasCol(cols, key)
    THEN row[CHOOSE i \in 1..Len(cols) : cols[i] = key /\ \A j \in 1..(i - 1) : cols[j] # key]
    ELSE default

----------------------------------------------------------------------------
(* processar_notas: the emission date *)

\* the emission date with the failed parse keeping the text as sent instead
\* of the default
DataEmissaoSemPadrao(cols, row, modo_data, data_custom, c) ==
    LET padrao == strftime(Now(c))
    IN  IF modo_data = "escolher"
        THEN LET data_obj == strptime(data_custom)
             IN  IF data_obj.ok THEN strftime(data_obj.dt) ELSE data_custom
        ELSE IF modo_data = "venda"
        THEN IF HasCol(cols, H_Data) /\ notna(Get(cols, row, H_Data, None))
             THEN LET data_raw == Get(cols, row, H_Data, None)
                  IN  IF data_raw.k = "date" THEN strftime(DateOf(data_raw))
                      ELSE PyStr(data_raw)
             ELSE padrao
        ELSE padrao

\* lines 187-204; c is the clock reading when the row is processed
DataEmissao(cols, row, modo_data, data_custom, c) ==
    LET padrao == strftime(Now(c))
    IN  IF modo_data = "escolher" /\ data_custom # <<>>
        THEN LET data_obj == strptime(data_custom)
             IN  IF data_obj.ok THEN strftime(data_obj.dt) ELSE padrao
        ELSE IF modo_data = "venda"
        THEN IF HasCol(cols, H_Data) /\ notna(Get(cols, row, H_Data, None))
             THEN LET data_raw == Get(cols, row, H_Data, None)
                  IN  IF data_raw.k = "date" THEN strftime(DateOf(data_raw))
                      ELSE PyStr(data_raw)
             ELSE padrao
        ELSE padrao

----------------------------------------------------------------------------
(* processar_notas: the customer name *)

buscas == <<H_RespFin, H_RespFin2, H_RespFin3, H_Nome, H_Cliente, H_RazaoSocial>>

ChavesLimpas == {K_respfin, K_nome, K_cliente, K_razaosocial}

\* lines 209-212: the first candidate that is a column with a non-null cell
RECURSIVE BuscaExata(_, _, _)
BuscaExata(bs, cols, row) ==
    IF bs = <<>> THEN Str(T_Consumidor)
    ELSE IF HasCol(cols, bs[1]) /\ notna(Get(cols, row, bs[1], None))
         THEN Get(cols, row, bs[1], None)
         ELSE BuscaExata(Tail(bs), cols, row)

\* line 216: col.lower().replace('.', '').replace(' ', '')
Limpa(col) == Replace(Replace(Lower(col), <<".">>, <<>>), <<" ">>, <<>>)

\* lines 215-220: the columns in their order, from position i on
RECURSIVE BuscaLimpa(_, _, _, _)
BuscaLimpa(i, cols, row, nome) ==
    IF i > Len(cols) THEN nome
    ELSE IF Limpa(cols[i]) \in ChavesLimpas /\ notna(row[i])
         THEN row[i]
         ELSE BuscaLimpa(i + 1, cols, row, nome)

\* line 214: nome_cliente == 'Consumidor'
SegundaBusca(nome_cliente) == nome_cliente = Str(T_Consumidor)

\* lines 207-220
NomeCliente(cols, row) ==
    LET nome_cliente == BuscaExata(buscas, cols, row)
    IN  IF SegundaBusca(nome_cliente)
        THEN BuscaLimpa(1, cols, row, nome_cliente)
        ELSE nome_cliente

----------------------------------------------------------------------------
(* processar_notas: the record and the workbook of one row *)

NameLimit == 30

BaseNumber == 1000

\* lines 227 and 252: 1000 + index raises TypeError when the row label is
\* no number
SomaLevanta(index) == index.k \notin {"int", "num", "nan", "inf"}

\* lines 227 and 252: 1000 + index for a row label that is a number
Soma(base, index) ==
    CASE index.k = "int" -> PyInt(base + index.n)
      [] index.k = "num" ->
            LET t == base * Pow10(index.e) + (IF index.neg THEN 0 - index.n ELSE index.n)
            IN  Float(t < 0, Abs(t), index.e)
      [] index.k \in {"nan", "inf"} -> index

\* line 227: f"NF-{1000+index} - {str(nome_cliente)[:30]}"
NomeArquivo(index, nome_cliente) ==
    T_NF \o PyStr(Soma(BaseNumber, index)) \o T_Sep \o Take(PyStr(nome_cliente), NameLimit)

\* line 230: row.get('CPF/CNPJ') or row.get('CPF') or '-'
Cpf(cols, row) ==
    Or(Or(Get(cols, row, H_CpfCnpj, None), Get(cols, row, H_Cpf, None)), Str(T_Traco))

\* line 237: row.get('CPF Resp', row.get('CPF/CNPJ', '-'))
CpfResp(cols, row) ==
    Get(cols, row, H_CpfResp, Get(cols, row, H_CpfCnpj, Str(T_Traco)))

\* line 284: f"{row.get('Espécie', 'Serviço')} - {row.get('Título', '')}"
Descricao(cols, row) ==
    PyStr(Get(cols, row, H_Especie, Str(T_Servico))) \o T_Sep
        \o PyStr(Get(cols, row, H_Titulo, Str(T_Vazio)))

\* lines 223-241: item_dados before the workbook is attached.  c is the
\* clock reading of line 187, c2 the later one of line 239.
ItemDados(index, cols, row, modo_data, data_custom, c, c2) ==
    LET nome_cliente == NomeCliente(cols, row)
    IN  [temp_id |-> index,
         nome_arquivo |-> NomeArquivo(index, nome_cliente),
         respFin |-> nome_cliente,
         origem |-> Get(cols, row, H_Origem, Str(T_Traco)),
         cpf |-> Cpf(cols, row),
         titulo |-> Get(cols, row, H_Titulo, Str(T_Servico)),
         especie |-> Get(cols, row, H_Especie, Str(T_NFe)),
         vDevido |-> FormatMoeda(limpar_moeda(Get(cols, row, H_VDevido, PyInt(0)))),
         vReceb |-> FormatMoeda(limpar_moeda(Get(cols, row, H_VReceb, PyInt(0)))),
         vDesc |-> FormatMoeda(limpar_moeda(Get(cols, row, H_VDesc, PyInt(0)))),
         pContas |-> Get(cols, row, H_PContas, Str(T_Fidelizado)),
         cpfResp |-> CpfResp(cols, row),
         data |-> DataEmissao(cols, row, modo_data, data_custom, c),
         venc |-> PyStr(Get(cols, row, H_Venc, Str(strftime(Now(c2))))),
         arquivo |-> <<>>]

\* line 300: val_devido - val_desc.  The difference of two floats is kept as
\* its operands.
Sub(a, b) == [minuendo |-> a, subtraendo |-> b]

\* lines 251-302: the cells of the worksheet that carry row data
Planilha(index, cols, row, item) ==
    LET val_devido == limpar_moeda(Get(cols, row, H_VDevido, PyInt(0)))
        val_desc == limpar_moeda(Get(cols, row, H_VDesc, PyInt(0)))
    IN  [B4 |-> Soma(BaseNumber, index),
         D4 |-> item.data,
         B8 |-> item.respFin,
         B9 |-> item.cpf,
         B10 |-> item.origem,
         A15 |-> Descricao(cols, row),
         B15 |-> item.venc,
         C15 |-> val_desc,
         D15 |-> val_devido,
         D17 |-> Sub(val_devido, val_desc)]

\* openpyxl refuses a text cell holding a character of ILLEGAL_CHARACTERS_RE,
\* U+0000 to U+0008, U+000B, U+000C and U+000E to U+001F
\* (IllegalCharacterError), which ends the request in the except of line 320
ILLEGAL_CHARACTERS ==
    {"^@", "^A", "^B", "^C", "^D", "^E", "^F", "^G", "^H", "^K", "\f",
     "^N", "^O", "^P", "^Q", "^R", "^S", "^T", "^U", "^V", "^W", "^X", "^Y", "^Z", "^[",
     "^\\", "^]", "^^", "^_"}

Ilegal(t) == \E i \in 1..Len(t) : t[i] \in ILLEGAL_CHARACTERS

CelulaIlegal(v) == v.k = "str" /\ Ilegal(v.s)

Levanta(ws) ==
    \/ Ilegal(ws.D4) \/ CelulaIlegal(ws.B8) \/ CelulaIlegal(ws.B9)
    \/ CelulaIlegal(ws.B10) \/ Ilegal(ws.A15) \/ Ilegal(ws.B15)

\* lines 181-316: the pass of the loop for the row raises, at line 227 for a
\* row label that is no number or at a cell openpyxl refuses
PassoLevanta(index, cols, row, modo_data, data_custom, c, c2) ==
    IF SomaLevanta(index) THEN TRUE
    ELSE Levanta(Planilha(index, cols, row,
                          ItemDados(index, cols, row, modo_data, data_custom, c, c2)))

----------------------------------------------------------------------------
(* The uploads of the model: a header row and the rows that may follow it  *)
(* (a row gives the cells by position)                                      *)

\* the form fields modoData and dataCustom of the model
DatasCustom == {T_Vazio, D_Valida, D_Invalida, D_Fev30, D_SemZeros}

Formularios ==
    {<<"atual", T_Vazio>>, <<"venda", T_Vazio>>}
        \cup {<<"escolher", d>> : d \in DatasCustom}

\* the forms sent with the tables that have no "Data" column
FormulariosSemData == {<<"atual", T_Vazio>>}

\* the kinds of file a table of the model may come in; a cell that is a date
\* comes from a workbook only
Tipos == {"csv", "xlsx"}

Layout(tipos, columns, rows, forms) ==
    [tipos |-> tipos, columns |-> columns, rows |-> rows, forms |-> forms]

Layouts ==
    { Layout(Tipos, <<H_Cliente, H_Nome>>,
             {<<Str(T_Bob), Str(T_Ana)>>, <<Str(T_Bob), Str(T_Consumidor)>>,
              <<Str(T_Bob), NaN>>},
             FormulariosSemData),
      Layout(Tipos, <<H_RespFin, H_NOME>>,
             {<<Str(T_Ana), Str(T_Bob)>>, <<NaN, Str(T_Bob)>>, <<NaN, NaN>>},
             FormulariosSemData),
      Layout(Tipos, <<H_RazaoSocial, H_RazaoSemTil>>,
             {<<Str(T_Ana), Str(T_Bob)>>, <<NaN, Str(T_Bob)>>},
             FormulariosSemData),
      Layout(Tipos, <<H_NomeEspacos, H_Origem>>,
             {<<Str(T_Longo), Str(T_Loja)>>, <<Str(T_Bob), NaN>>,
              <<Str(T_Ctrl), Str(T_Loja)>>},
             FormulariosSemData),
      Layout(Tipos, <<H_VDevido, H_VDesc>>,
             {<<Str(T_1234_56), Str(T_abc)>>, <<Str(T_12_34), Num(-500)>>,
              <<NaN, Str(T_12_34)>>},
             FormulariosSemData),
      Layout(Tipos, <<H_VReceb>>,
             {<<Str(T_menos5)>>, <<Str(T_inf)>>, <<Str(T_2_999)>>, <<Str(T_nbsp_12_34)>>},
             FormulariosSemData),
      Layout(Tipos, <<H_Cpf>>,
             {<<Str(T_Cpf123)>>},
             FormulariosSemData),
      Layout(Tipos, <<H_CpfCnpj, H_Cpf>>,
             {<<Str(T_Cpf456), Str(T_Cpf123)>>, <<NaN, Str(T_Cpf123)>>},
             FormulariosSemData),
      Layout(Tipos, <<H_CpfResp, H_Cpf>>,
             {<<Str(T_Cpf789), Str(T_Cpf123)>>, <<NaN, Str(T_Cpf123)>>},
             FormulariosSemData),
      Layout(Tipos, <<H_Especie, H_Titulo>>,
             {<<Str(T_Boleto), Str(T_Mensal)>>, <<NaN, Str(T_Mensal)>>},
             FormulariosSemData),
      Layout(Tipos, <<H_Especie>>,
             {<<Str(T_Boleto)>>},
             FormulariosSemData),
      Layout(Tipos, <<H_Titulo>>,
             {<<Str(T_Mensal)>>},
             FormulariosSemData),
      Layout({"xlsx"}, <<H_Data>>,
             {<<NaN>>, <<Str(T_DataTexto)>>, <<Date(2024, 1, 2)>>},
             Formularios),
      Layout(Tipos, <<H_Venc, H_PContas>>,
             {<<Str(T_VencTexto), Str(T_Plano)>>, <<NaN, Str(T_Plano)>>},
             {<<"atual", T_Vazio>>, <<"venda", T_Vazio>>, <<"escolher", D_Invalida>>}),
      \* data lines with one field more than the header line: 'Nome,Cliente'
      \* then '5,Bob,Ana' or '7,Bob,' (in a workbook, a third column without
      \* a header), and then 'A,Bob,Ana'
      Layout(Tipos, <<H_Nome, H_Cliente>>,
             {<<PyInt(5), Str(T_Bob), Str(T_Ana)>>, <<PyInt(7), Str(T_Bob), NaN>>},
             FormulariosSemData),
      Layout({"csv"}, <<H_Nome, H_Cliente>>,
             {<<Str(T_A), Str(T_Bob), Str(T_Ana)>>},
             FormulariosSemData),
      \* data lines with two fields more than the header line: 'Nome' then
      \* '1,2,Bob'
      Layout({"csv"}, <<H_Nome>>,
             {<<PyInt(1), PyInt(2), Str(T_Bob)>>},
             FormulariosSemData) }

File(tipo, legivel, columns, rows) ==
    [tipo |-> tipo, legivel |-> legivel, columns |-> columns, rows |-> rows]

\* the files of a layout: its header row and at most MaxRows of its rows
FilesOf(l) ==
    {File(t, TRUE, l.columns, rs) :
        t \in l.tipos, rs \in UNION {[1..n -> l.rows] : n \in 0..MaxRows}}

\* the files pandas cannot read: an empty '.csv' file (EmptyDataError at
\* line 163 and again at line 166), a file that is no workbook (line 168)
Ilegiveis == {File(t, FALSE, <<>>, <<>>) : t \in Tipos}

\* the uploads of the model: a file and the form sent with it
Uploads == UNION {FilesOf(l) \X l.forms : l \in Layouts}
               \cup (Ilegiveis \X FormulariosSemData)

----------------------------------------------------------------------------
(* processar_notas as a state machine *)

NoDf == [columns |-> <<>>, rows |-> <<>>, index |-> <<>>]

NoReq == [modoData |-> "atual", dataCustom |-> <<>>, df |-> NoDf]

NoResp == [kind |-> "none", status |-> 0, body |-> <<>>]

\* an error response that leaks the records built so far
RespostaErroParcial(parcial) == [kind |-> "error", status |-> 500, body |-> parcial]

\* lines 320-322: the response when anything raised; parcial is what
\* resultado_processamento holds at that moment
RespostaErro(parcial) == [kind |-> "error", status |-> 500, body |-> <<>>]

\* line 318
RespostaOk(registros) == [kind |-> "ok", status |-> 200, body |-> registros]

\* line 316: resultado_processamento.append(item_dados)
Acrescenta(registros, item) == Append(registros, item)

\* the position in df of the row the loop of line 181 is at, from 0
Posicao == Len(resultado)

\* index of line 181: the label df.iterrows() gives with the row
Index == req.df.index[Posicao + 1]

LinhaAtual == req.df.rows[Posicao + 1]

\* the clock reads clock at line 187 and agora at line 239
ItemAtual(agora) ==
    ItemDados(Index, req.df.columns, LinhaAtual, req.modoData, req.dataCustom, clock, agora)

\* lines 151-152: the request carries no file
SemArquivo ==
    /\ pc = "idle"
    /\ req' = NoReq
    /\ resultado' = <<>>
    /\ resp' = [kind |-> "error", status |-> 400, body |-> <<>>]
    /\ pc' = "done"
    /\ UNCHANGED <<clock, storeVars>>

\* lines 154-172: the file is read, the headers stripped, the loop entered
Upload(file, modo, custom) ==
    /\ pc = "idle"
    /\ file.legivel
    /\ req' = [modoData |-> modo, dataCustom |-> custom, df |-> ReadFile(file)]
    /\ resultado' = <<>>
    /\ resp' = NoResp
    /\ pc' = "loop"
    /\ UNCHANGED <<clock, storeVars>>

\* lines 154-168, 320-322: pd.read_csv (both attempts) or pd.read_excel
\* raises
LeituraLevanta(file, modo, custom) ==
    /\ pc = "idle"
    /\ ~file.legivel
    /\ req' = [modoData |-> modo, dataCustom |-> custom, df |-> NoDf]
    /\ resultado' = <<>>
    /\ resp' = RespostaErro(<<>>)
    /\ pc' = "done"
    /\ UNCHANGED <<clock, storeVars>>

\* lines 181-316: one pass of the loop that ends in the append.  The pass
\* reads the clock at line 187 and again at line 239; midnight may fall
\* between the two readings.
ProcessaLinha ==
    /\ pc = "loop"
    /\ Posicao < Len(req.df.rows)
    /\ ~SomaLevanta(Index)
    /\ \E agora \in clock..MaxTicks :
           \E item \in {ItemAtual(agora)} :
               \E ws \in {Planilha(Index, req.df.columns, LinhaAtual, item)} :
                   /\ ~Levanta(ws)
                   /\ resultado' = Acrescenta(resultado, [item EXCEPT !.arquivo = ws])
                   /\ clock' = agora
    /\ UNCHANGED <<pc, req, resp, storeVars>>

\* lines 181-316, 320-322: a pass of the loop raises
LinhaLevanta ==
    /\ pc = "loop"
    /\ Posicao < Len(req.df.rows)
    /\ \E agora \in clock..MaxTicks :
           /\ PassoLevanta(Index, req.df.columns, LinhaAtual, req.modoData,
                           req.dataCustom, clock, agora)
           /\ clock' = agora
    /\ resp' = RespostaErro(resultado)
    /\ pc' = "done"
    /\ UNCHANGED <<req, resultado, storeVars>>

\* line 318: the loop is over
Responde ==
    /\ pc = "loop"
    /\ Posicao = Len(req.df.rows)
    /\ resp' = RespostaOk(resultado)
    /\ pc' = "done"
    /\ UNCHANGED <<clock, req, resultado, storeVars>>

\* the response has gone out and the request's locals are gone
Termina ==
    /\ pc = "done"
    /\ pc' = "idle"
    /\ req' = NoReq
    /\ resultado' = <<>>
    /\ resp' = NoResp
    /\ UNCHANGED <<clock, storeVars>>

\* the host clock crosses midnight
Tick ==
    /\ clock < MaxTicks
    /\ clock' = clock + 1
    /\ UNCHANGED <<pc, req, resultado, resp, storeVars>>

\* the request threads of the store routes: the server runs each request in
\* a thread of its own, with a database connection of its own
Conexoes == {"a", "b"}

NoBody == [novas_notas |-> <<>>, id |-> <<>>, isCadastrado |-> FALSE]

NoRespStore == [kind |-> "none", status |-> 0, message |-> <<>>, duplicates |-> 0,
                error |-> <<>>, lista |-> <<>>]

\* a thread with no request.  rota is the route of its request ("none",
\* "post", "put", "get"); pc its position: "idle", "select" (before the
\* execute of line 105), "fetch" (before the fetchone of line 106), "insert"
\* (line 107), "commit" (line 121), "put" (line 139), "putcommit" (line 140),
\* "get" (before the execute of line 69), "fetchall" (line 70), "except"
\* (lines 86, 129, 143) and "done"; i the position of the loop of line 100 in
\* the body, salvas and ignoradas the counters of lines 97-98; pend the rows
\* it inserted and has not committed; lidas the rows of its SELECT that are
\* not fetched yet; erro the text of the exception.
SemPedido == [rota |-> "none", pc |-> "idle", body |-> NoBody, i |-> 0, salvas |-> 0,
              ignoradas |-> 0, pend |-> <<>>, lidas |-> <<>>, erro |-> <<>>,
              resp |-> NoRespStore]

Init ==
    /\ clock = 0
    /\ pc = "idle"
    /\ req = NoReq
    /\ resultado = <<>>
    /\ resp = NoResp
    /\ notas = <<>>
    /\ con = [c \in Conexoes |-> SemPedido]
    /\ trava = "none"
    /\ pendente = FALSE

UploadAny == \E u \in Uploads : Upload(u[1], u[2][1], u[2][2])

LeituraLevantaAny == \E u \in Uploads : LeituraLevanta(u[1], u[2][1], u[2][2])

Next ==
    \/ SemArquivo
    \/ UploadAny
    \/ LeituraLevantaAny
    \/ ProcessaLinha
    \/ LinhaLevanta
    \/ Responde
    \/ Termina
    \/ Tick

Spec == Init /\ [][Next]_vars

----------------------------------------------------------------------------
(* The record store: table notas and the routes of lines 62-144 *)

(* Identity fields of the records of the model *)
E_Acme == <<"A", "c", "m", "e">>    \* 'Acme'

E_Acme2024 == <<"A", "c", "m", "e", "-", "2", "0", "2", "4">>    \* 'Acme-2024'

E_Beta == <<"B", "e", "t", "a">>    \* 'Beta'

DT_20240101 == <<"2", "0", "2", "4", "-", "0", "1", "-", "0", "1">>    \* '2024-01-01'

DT_0101 == <<"0", "1", "-", "0", "1">>    \* '01-01'

V_100 == <<"1", "0", "0">>    \* '100'

(* Texts of the responses *)
T_NotasSalvas == <<" ", "n", "o", "t", "a", "s", " ", "s", "a", "l", "v", "a", "s", ".">>    \* ' notas salvas.'

T_AbreDuplicatas == <<" ", "(">>    \* ' ('

T_Duplicatas == <<" ", "d", "u", "p", "l", "i", "c", "a", "t", "a", "s", " ", "j", "á", " ", "e", "x", "i", "s", "t", "i", "a", "m", ")">>    \* ' duplicatas já existiam)'

T_UniqueFailed == <<"U", "N", "I", "Q", "U", "E", " ", "c", "o", "n", "s", "t", "r", "a", "i", "n", "t", " ", "f", "a", "i", "l", "e", "d", ":", " ", "n", "o", "t", "a", "s", ".", "h", "a", "s", "h", "_", "r", "e", "g", "i", "s", "t", "r", "o">>    \* 'UNIQUE constraint failed: notas.hash_registro'

T_Locked == <<"d", "a", "t", "a", "b", "a", "s", "e", " ", "i", "s", " ", "l", "o", "c", "k", "e", "d">>    \* 'database is locked'

T_StatusAtualizado == <<"S", "t", "a", "t", "u", "s", " ", "a", "t", "u", "a", "l", "i", "z", "a", "d", "o", "!">>    \* 'Status atualizado!'

\* hashlib.md5(raw).hexdigest(): the digest is taken to be collision-free,
\* so it is represented by the text it digests
Md5(raw) == <<"md5", raw>>

\* lines 55-57
gerar_hash(empresa, data, valor) == Md5(empresa \o <<"-">> \o data \o <<"-">> \o valor)

\* json.dumps / json.loads of detalhesCompletos
JsonDumps(x) == <<"json", x>>

JsonLoads(j) == j[2]

Nota(empresa, data, valor, status, isCadastrado) ==
    [empresa |-> empresa, data |-> data, valor |-> valor, status |-> status,
     isCadastrado |-> isCadastrado, arquivoBase64 |-> "QUJD", detalhesCompletos |-> "{}"]

\* the records a client of the model may submit
NotasModelo ==
    { Nota(E_Acme, DT_20240101, V_100, "Emitida", FALSE),
      Nota(E_Acme2024, DT_0101, V_100, "Emitida", FALSE),
      Nota(E_Beta, DT_20240101, V_100, "Emitida", TRUE) }

\* the ids a client of the model may name in the URL of an update: '1', '02'
\* and 'x'
IdsModelo == {<<"1">>, <<"0", "2">>, <<"x">>}

\* line 105: SELECT id FROM notas WHERE hash_registro = ?
Achadas(tabela, rec_hash) ==
    LET Igual(row) == row.hash_registro = rec_hash
        rows == SelectSeq(tabela, Igual)
    IN  [i \in 1..Len(rows) |-> rows[i].id]

\* line 106: cursor.fetchone() is not None
JaExiste(rows) == rows # <<>>

\* line 36: hash_registro TEXT UNIQUE refuses a hash the table holds
ViolaUnique(tabela, rec_hash) ==
    rec_hash \in {tabela[j].hash_registro : j \in 1..Len(tabela)}

\* lines 107-116: the row an INSERT adds; id is AUTOINCREMENT
Linha(tabela, nota, rec_hash) ==
    [id |-> Len(tabela) + 1,
     empresa |-> nota.empresa, data |-> nota.data, valor |-> nota.valor,
     status |-> nota.status,
     is_cadastrado |-> IF nota.isCadastrado THEN 1 ELSE 0,
     arquivo_base64 |-> nota.arquivoBase64,
     detalhes_json |-> JsonDumps(nota.detalhesCompletos),
     hash_registro |-> rec_hash]

\* lines 124-126: msg
Mensagem(salvas, ignoradas) ==
    NatStr(salvas) \o T_NotasSalvas
        \o (IF ignoradas > 0 THEN T_AbreDuplicatas \o NatStr(ignoradas) \o T_Duplicatas
            ELSE <<>>)

\* line 128
RespSave(salvas, ignoradas) ==
    [kind |-> "save", status |-> 201, message |-> Mensagem(salvas, ignoradas),
     duplicates |-> ignoradas, error |-> <<>>, lista |-> <<>>]

\* lines 129-130, 143-144: jsonify({'error': str(e)}), 500
RespErro(texto) ==
    [kind |-> "error", status |-> 500, message |-> <<>>, duplicates |-> 0,
     error |-> texto, lista |-> <<>>]

\* line 142
RespUpdate ==
    [kind |-> "update", status |-> 200, message |-> T_StatusAtualizado, duplicates |-> 0,
     error |-> <<>>, lista |-> <<>>]

\* lines 72-83: one element of the listing
NotaJson(row) ==
    [id |-> row.id, empresa |-> row.empresa, data |-> row.data, valor |-> row.valor,
     status |-> row.status, isCadastrado |-> row.is_cadastrado # 0,
     arquivoBase64 |-> row.arquivo_base64,
     detalhesCompletos |-> JsonLoads(row.detalhes_json)]

\* line 69: SELECT * FROM notas ORDER BY id DESC
Listagem(tabela) == [i \in 1..Len(tabela) |-> tabela[Len(tabela) + 1 - i]]

\* lines 72-85; rows is what fetchall returned
RespLista(rows) ==
    [kind |-> "list", status |-> 200, message |-> <<>>, duplicates |-> 0,
     error |-> <<>>, lista |-> [i \in 1..Len(rows) |-> NotaJson(rows[i])]]

\* WHERE id = ? with the text of the URL: the text is compared as a number
\* when it reads as one (blanks around it skipped, no "_", inf or nan), and
\* equals no id otherwise
IdIgual(rowid, f) == f.ok /\ f.v.k = "num" /\ ~f.v.neg /\ f.v.e = 0 /\ f.v.n = rowid

WhereId(rowid, id) ==
    /\ \A i \in 1..Len(id) : id[i] \in Ascii \ {"_"}
    /\ IdIgual(rowid, FloatDoTexto(SkipRight(SkipLeft(id))))

\* UPDATE notas SET is_cadastrado = ? WHERE id = ?
Atualiza(tabela, id, isCadastrado) ==
    [i \in 1..Len(tabela) |->
        IF WhereId(tabela[i].id, id)
        THEN [tabela[i] EXCEPT !.is_cadastrado = IF isCadastrado THEN 1 ELSE 0]
        ELSE tabela[i]]

Pedido(novas, id, flag) == [novas_notas |-> novas, id |-> id, isCadastrado |-> flag]

\* the bodies of the save requests of the model
Corpos == UNION {[1..n -> NotasModelo] : n \in 0..MaxNotas}

\* the records in the bodies of the requests in flight
RECURSIVE EmVoo(_)
EmVoo(S) ==
    IF S = {} THEN 0
    ELSE LET c == CHOOSE x \in S : TRUE
         IN  Len(con[c].body.novas_notas) + EmVoo(S \ {c})

\* what the statements of connection c see: the committed rows and its own
Visivel(c) == notas \o con[c].pend

\* the record the loop of line 100 is at, and its hash (line 102)
NotaAtual(c) == con[c].body.novas_notas[con[c].i]

HashAtual(c) == gerar_hash(NotaAtual(c).empresa, NotaAtual(c).data, NotaAtual(c).valor)

\* where the loop of line 100 goes after position i
Proximo(novas, i) == IF i > Len(novas) THEN "commit" ELSE "select"

\* the database's locks.  A connection reads under a shared lock that it
\* holds from the execute of a SELECT that found a row until the rows are
\* fetched; a SELECT that found no row leaves no lock.
Lendo(c) == con[c].pc \in {"fetch", "fetchall"} /\ con[c].lidas # <<>>

\* another connection is reading: a commit of written rows has to wait
OutroLendo(c) == \E d \in Conexoes \ {c} : Lendo(d)

\* another connection is waiting to commit: a SELECT has to wait
OutroPendente(c) == pendente /\ trava # c

\* a client sends POST /api/notas; lines 92-98
PedePost(c, novas) ==
    /\ con[c].pc = "idle"
    /\ Len(novas) + EmVoo(Conexoes) <= MaxNotas
    /\ con' = [con EXCEPT ![c] = [SemPedido EXCEPT !.rota = "post",
                                                   !.pc = Proximo(novas, 1),
                                                   !.body = Pedido(novas, <<>>, FALSE),
                                                   !.i = 1]]
    /\ UNCHANGED <<notas, trava, pendente, procVars>>

\* a client sends PUT /api/notas/<id>; lines 134-138
PedePut(c, id, flag) ==
    /\ con[c].pc = "idle"
    /\ con' = [con EXCEPT ![c] = [SemPedido EXCEPT !.rota = "put",
                                                   !.pc = "put",
                                                   !.body = Pedido(<<>>, id, flag)]]
    /\ UNCHANGED <<notas, trava, pendente, procVars>>

\* a client sends GET /api/notas; lines 63-67
PedeGet(c) ==
    /\ con[c].pc = "idle"
    /\ con' = [con EXCEPT ![c] = [SemPedido EXCEPT !.rota = "get", !.pc = "get"]]
    /\ UNCHANGED <<notas, trava, pendente, procVars>>

\* lines 100-105: the hash of the record and the execute of the SELECT, which
\* runs the statement up to its first row
Seleciona(c) ==
    /\ con[c].pc = "select"
    /\ ~OutroPendente(c)
    /\ con' = [con EXCEPT ![c].lidas = Achadas(Visivel(c), HashAtual(c)),
                          ![c].pc = "fetch"]
    /\ UNCHANGED <<notas, trava, pendente, procVars>>

\* lines 106, 118-119: fetchone ends the SELECT; a record whose hash was found
\* is counted as ignored
Fetchone(c) ==
    /\ con[c].pc = "fetch"
    /\ IF JaExiste(con[c].lidas)
       THEN con' = [con EXCEPT ![c].lidas = <<>>,
                               ![c].ignoradas = @ + 1,
                               ![c].i = @ + 1,
                               ![c].pc = Proximo(con[c].body.novas_notas, con[c].i + 1)]
       ELSE con' = [con EXCEPT ![c].pc = "insert"]
    /\ UNCHANGED <<notas, trava, pendente, procVars>>

\* lines 107-117: the INSERT.  It opens the connection's transaction and takes
\* the write lock, so it waits while another connection holds the lock.  A hash
\* the table holds by now breaks UNIQUE: IntegrityError, with the transaction
\* still open.
Insere(c) ==
    /\ con[c].pc = "insert"
    /\ trava \in {"none", c}
    /\ IF ViolaUnique(Visivel(c), HashAtual(c))
       THEN con' = [con EXCEPT ![c].erro = T_UniqueFailed, ![c].pc = "except"]
       ELSE con' = [con EXCEPT ![c].pend = Append(@, Linha(Visivel(c), NotaAtual(c),
                                                           HashAtual(c))),
                               ![c].salvas = @ + 1,
                               ![c].i = @ + 1,
                               ![c].pc = Proximo(con[c].body.novas_notas, con[c].i + 1)]
    /\ trava' = c
    /\ UNCHANGED <<notas, pendente, procVars>>

\* lines 107 and 139 when the wait for the write lock runs out (the timeout
\* of sqlite3.connect): OperationalError
EsperaEsgotada(c) ==
    /\ con[c].pc \in {"insert", "put"}
    /\ trava \notin {"none", c}
    /\ con' = [con EXCEPT ![c].erro = T_Locked, ![c].pc = "except"]
    /\ UNCHANGED <<notas, trava, pendente, procVars>>

\* lines 69 and 105 when the wait for a connection that is waiting to commit
\* runs out: OperationalError
LeituraEsgotada(c) ==
    /\ con[c].pc \in {"select", "get"}
    /\ OutroPendente(c)
    /\ con' = [con EXCEPT ![c].erro = T_Locked, ![c].pc = "except"]
    /\ UNCHANGED <<notas, trava, pendente, procVars>>

\* lines 121 and 140 when the wait for the readers runs out: OperationalError,
\* with the transaction still open and new readers kept out
CommitEsgotado(c) ==
    /\ con[c].pc \in {"commit", "putcommit"}
    /\ trava = c
    /\ OutroLendo(c)
    /\ con' = [con EXCEPT ![c].erro = T_Locked, ![c].pc = "except"]
    /\ pendente' = TRUE
    /\ UNCHANGED <<notas, trava, procVars>>

\* lines 121-128: the commit publishes the connection's rows and frees the
\* lock; it waits while another connection reads.  With no row inserted there
\* is no transaction and nothing to wait for.
Confirma(c) ==
    /\ con[c].pc = "commit"
    /\ trava = c => ~OutroLendo(c)
    /\ notas' = Visivel(c)
    /\ trava' = IF trava = c THEN "none" ELSE trava
    /\ con' = [con EXCEPT ![c].pend = <<>>,
                          ![c].resp = RespSave(con[c].salvas, con[c].ignoradas),
                          ![c].pc = "done"]
    /\ UNCHANGED <<pendente, procVars>>

\* line 139: the UPDATE.  It opens the connection's transaction and takes the
\* write lock, whether or not a row has the id, so it waits while another
\* connection holds the lock; the other connections see the change after the
\* commit.
Atualizar(c) ==
    /\ con[c].pc = "put"
    /\ trava = "none"
    /\ trava' = c
    /\ con' = [con EXCEPT ![c].pc = "putcommit"]
    /\ UNCHANGED <<notas, pendente, procVars>>

\* lines 140-142: the commit publishes the change and frees the lock; it waits
\* while another connection reads
ConfirmaUpdate(c) ==
    /\ con[c].pc = "putcommit"
    /\ ~OutroLendo(c)
    /\ notas' = Atualiza(notas, con[c].body.id, con[c].body.isCadastrado)
    /\ trava' = "none"
    /\ con' = [con EXCEPT ![c].resp = RespUpdate, ![c].pc = "done"]
    /\ UNCHANGED <<pendente, procVars>>

\* line 69: the execute of the SELECT, which runs the statement up to its
\* first row; it sees the committed rows
Lista(c) ==
    /\ con[c].pc = "get"
    /\ ~OutroPendente(c)
    /\ con' = [con EXCEPT ![c].lidas = Listagem(notas), ![c].pc = "fetchall"]
    /\ UNCHANGED <<notas, trava, pendente, procVars>>

\* lines 70-85: fetchall ends the SELECT, and the listing is returned
Fetchall(c) ==
    /\ con[c].pc = "fetchall"
    /\ con' = [con EXCEPT ![c].lidas = <<>>,
                          ![c].resp = RespLista(con[c].lidas),
                          ![c].pc = "done"]
    /\ UNCHANGED <<notas, trava, pendente, procVars>>

\* lines 86-87, 129-130, 143-144: the exception is answered 500 with its
\* text.  The route returns without conn.close(): the connection stays
\* referenced by the frame in the exception's traceback, a reference cycle, so
\* it keeps its open transaction and its locks after the response, until the
\* collector frees it.  The rows it inserted are seen by no other connection.
Excecao(c) ==
    /\ con[c].pc = "except"
    /\ con' = [con EXCEPT ![c].pend = <<>>,
                          ![c].resp = RespErro(con[c].erro),
                          ![c].pc = "done"]
    /\ trava' = IF trava = c THEN "solta" ELSE trava
    /\ UNCHANGED <<notas, pendente, procVars>>

\* the collector frees the connection of a request that returned from its
\* except: the connection is closed, which rolls its transaction back and
\* frees its locks
Coleta ==
    /\ trava = "solta"
    /\ trava' = "none"
    /\ pendente' = FALSE
    /\ UNCHANGED <<notas, con, procVars>>

\* the response has gone out and the thread is free
TerminaStore(c) ==
    /\ con[c].pc = "done"
    /\ con' = [con EXCEPT ![c] = SemPedido]
    /\ UNCHANGED <<notas, trava, pendente, procVars>>

\* lines 90-128: a step of a save request that raises nothing
save_notas == \E c \in Conexoes : Seleciona(c) \/ Fetchone(c) \/ Insere(c) \/ Confirma(c)

\* lines 133-142: a step of an update request that raises nothing
update_nota == \E c \in Conexoes : Atualizar(c) \/ ConfirmaUpdate(c)

\* lines 62-85: a step of a listing request that raises nothing
get_notas == \E c \in Conexoes : Lista(c) \/ Fetchall(c)

\* a statement of a request raises; lines 86-87, 129-130, 143-144
Levantam ==
    \E c \in Conexoes :
        EsperaEsgotada(c) \/ LeituraEsgotada(c) \/ CommitEsgotado(c) \/ Excecao(c)

PedePostAny == \E c \in Conexoes, novas \in Corpos : PedePost(c, novas)

PedePutAny == \E c \in Conexoes, id \in IdsModelo, flag \in BOOLEAN : PedePut(c, id, flag)

PedeGetAny == \E c \in Conexoes : PedeGet(c)

NextStore ==
    \/ PedePostAny
    \/ PedePutAny
    \/ PedeGetAny
    \/ save_notas
    \/ update_nota
    \/ get_notas
    \/ Levantam
    \/ Coleta
    \/ \E c \in Conexoes : TerminaStore(c)

SpecStore == Init /\ [][NextStore]_vars

----------------------------------------------------------------------------
(* Properties of the record store, checked under SpecStore *)

Identidade(r) == <<r.empresa, r.data, r.valor>>

Fingerprint(r) == gerar_hash(r.empresa, r.data, r.valor)

\* the positions of a save body whose fingerprint is neither in the table nor
\* earlier in the body
Novos(tabela, novas) ==
    {i \in 1..Len(novas) :
        /\ \A r \in 1..Len(tabela) : Fingerprint(tabela[r]) # Fingerprint(novas[i])
        /\ \A j \in 1..(i - 1) : Fingerprint(novas[j]) # Fingerprint(novas[i])}

\* no two rows have the same fingerprint, neither among the committed rows
\* nor among those a connection sees
SemFingerprintRepetido ==
    \A c \in Conexoes :
        \A i, j \in 1..Len(Visivel(c)) :
            i # j => Fingerprint(Visivel(c)[i]) # Fingerprint(Visivel(c)[j])

\* the save request of connection c ends in this step
SaveTermina(c) ==
    con[c].rota = "post" /\ con[c].pc \in {"commit", "except"} /\ con'[c].pc = "done"

\* a save request inserts exactly the submitted records whose fingerprint is
\* neither stored nor earlier in its body, and reports the counts
SaveInsereOsNovos ==
    \A c \in Conexoes :
        SaveTermina(c) =>
            LET novas == con[c].body.novas_notas
                novos == Novos(notas, novas)
            IN  /\ con'[c].resp.status = 201
                /\ con'[c].resp.message =
                       Mensagem(Cardinality(novos), Len(novas) - Cardinality(novos))
                /\ con'[c].resp.duplicates = Len(novas) - Cardinality(novos)
                /\ Len(notas') = Len(notas) + Cardinality(novos)
                /\ SubSeq(notas', 1, Len(notas)) = notas
                /\ \A i \in novos : \E r \in (Len(notas) + 1)..Len(notas') :
                       /\ Identidade(notas'[r]) = Identidade(novas[i])
                       /\ notas'[r].hash_registro = Fingerprint(novas[i])
                /\ (notas = <<>> /\ Len(novas) = 2 /\ novas[1] = novas[2])
                     => /\ con'[c].resp.message = Mensagem(1, 1)
                        /\ con'[c].resp.duplicates = 1

\* C1: after any sequence of save and update requests no two stored records
\* have the same fingerprint, and a save inserts exactly the submitted records
\* whose fingerprint is neither stored nor earlier in the same request and
\* counts the others as duplicates; two identical records saved into an empty
\* store give savedCount 1 and duplicateCount 1.
C1_SaveDeduplica ==
    /\ [](SemFingerprintRepetido)
    /\ [][SaveInsereOsNovos]_vars

\* a save request whose commit succeeds has inserted exactly the new records,
\* whatever the other requests did meanwhile
SaveConfirmadoInsereOsNovos ==
    [][\A c \in Conexoes :
          (con[c].pc = "commit" /\ con'[c].pc = "done") => SaveInsereOsNovos]_vars

\* a save of one record that is in no row is answered 500 'database is
\* locked' and the record is not stored: its commit waited for a request that
\* was reading
SavePerdidoAtrasDeLeitor ==
    \E c \in Conexoes :
        /\ con[c].rota = "post"
        /\ con[c].pc = "done"
        /\ con[c].salvas = 1
        /\ con[c].resp = RespErro(T_Locked)
        /\ Len(con[c].body.novas_notas) = 1
        /\ \A r \in 1..Len(notas) :
               Fingerprint(notas[r]) # Fingerprint(con[c].body.novas_notas[1])

\* a request has returned from its except and no other is in flight; the save
\* that comes next, of a record that is in no row, is answered 500 'database
\* is locked': the connection of the first request still holds the write lock
SaveDepoisDeExcecao ==
    /\ trava = "solta"
    /\ con["a"].pc = "idle"
    /\ con["b"].rota = "post"
    /\ con["b"].pc = "done"
    /\ con["b"].resp = RespErro(T_Locked)
    /\ Len(con["b"].body.novas_notas) = 1
    /\ \A r \in 1..Len(notas) :
           Fingerprint(notas[r]) # Fingerprint(con["b"].body.novas_notas[1])

\* an update of a row is answered 500 'database is locked' and the row keeps
\* its flag: the UPDATE waited for the write lock, or the commit for a request
\* that was reading
UpdatePerdido ==
    \E c \in Conexoes :
        /\ con[c].rota = "put"
        /\ con[c].pc = "done"
        /\ con[c].resp = RespErro(T_Locked)
        /\ \E r \in 1..Len(notas) :
               /\ WhereId(notas[r].id, con[c].body.id)
               /\ (notas[r].is_cadastrado = 1) # con[c].body.isCadastrado

\* C10: save deduplicates a submitted record only against a record that agrees
\* with it on empresa, data and valor; so after a successful save every
\* submitted record has a stored record with its three identity fields.
C10_SoDuplicaIdenticos ==
    \A c \in Conexoes :
        (con[c].pc = "done" /\ con[c].resp.kind = "save") =>
            \A i \in 1..Len(con[c].body.novas_notas) :
                \E r \in 1..Len(notas) :
                    Identidade(notas[r]) = Identidade(con[c].body.novas_notas[i])

\* two requests submitted the same record at the same time: one is answered
\* 201 with the record stored, the other 500 by the UNIQUE constraint
CorridaNoInsert ==
    /\ con["a"].pc = "done" /\ con["b"].pc = "done"
    /\ con["a"].body.novas_notas = con["b"].body.novas_notas
    /\ Len(con["a"].body.novas_notas) = 1
    /\ con["a"].resp = RespSave(1, 0)
    /\ con["b"].resp = RespErro(T_UniqueFailed)
    /\ Len(notas) = 1

\* an update request is between its UPDATE and its commit, and the INSERT of
\* a save request waited for the write lock until its time ran out
EsperaPeloUpdate ==
    /\ con["a"].pc = "putcommit"
    /\ con["b"].pc = "done"
    /\ Len(con["b"].body.novas_notas) = 1
    /\ con["b"].resp = RespErro(T_Locked)

----------------------------------------------------------------------------
(* Properties of processar_notas, checked under Spec *)

\* the input row and the header row of the k-th record (k from 0)
LinhaDe(k) == req.df.rows[k + 1]

Colunas == req.df.columns

\* the candidates of buscas that are columns with a non-null cell in the row
Candidatos(row) ==
    {i \in 1..Len(buscas) :
        HasCol(Colunas, buscas[i]) /\ notna(Get(Colunas, row, buscas[i], None))}

Primeiro(S) == CHOOSE i \in S : \A j \in S : i <= j

\* C2: the resolved customer name of every row is the cell of the first
\* candidate header that is present and non-empty, whatever it contains; with
\* "Nome" and "Cliente" populated and no higher candidate it is the "Nome" cell.
C2_PrimeiroCandidato ==
    \A k \in 0..(Len(resultado) - 1) :
        LET row == LinhaDe(k)
        IN  Candidatos(row) # {} =>
                resultado[k + 1].respFin =
                    Get(Colunas, row, buscas[Primeiro(Candidatos(row))], None)

\* a text that float() cannot read after the clean-up: it holds a character
\* that is no digit, sign, separator, blank or currency symbol
TextoMalformado(t) ==
    \E i \in 1..Len(t) : t[i] \notin Digit \cup {"R", "$", " ", ".", ",", "-", "+"}

SemValor(cols, row, h) ==
    \/ ~HasCol(cols, h)
    \/ Get(cols, row, h, None).k = "nan"
    \/ Get(cols, row, h, None).k = "str" /\ TextoMalformado(Get(cols, row, h, None).s)

\* v is a finite number, not negative, and zero when the source gave no value
Canonico(v, cols, row, h) ==
    /\ v.k \in {"int", "num"}
    /\ ~(v.k = "int" /\ v.n < 0)
    /\ ~(v.k = "num" /\ v.neg /\ v.n # 0)
    /\ SemValor(cols, row, h) => v.n = 0

\* C3: in every processed row amountDue, amountReceived and amountDiscount
\* have a canonical numeric value that is non-negative, and 0.0 when the
\* column is absent, the cell is empty or the text is malformed.
C3_ValoresNaoNegativos ==
    \A k \in 0..(Len(resultado) - 1) :
        LET row == LinhaDe(k)
            ws == resultado[k + 1].arquivo
        IN  /\ Canonico(ws.D15, Colunas, row, H_VDevido)
            /\ Canonico(ws.C15, Colunas, row, H_VDesc)
            /\ Canonico(limpar_moeda(Get(Colunas, row, H_VReceb, PyInt(0))),
                        Colunas, row, H_VReceb)

\* the display form: "R$ ", the integer part with "." between groups of three
\* digits, ",", two decimals
BemFormada(t) ==
    /\ StartsWith(t, <<"R", "$", " ">>)
    /\ Len(t) >= 7
    /\ t[Len(t) - 2] = ","
    /\ AllDigits(SubSeq(t, Len(t) - 1, Len(t)))
    /\ LET ip == SubSeq(t, 4, Len(t) - 3)
           ds == Replace(ip, <<".">>, <<>>)
       IN  /\ AllDigits(ds)
           /\ Len(ds) = 1 \/ ds[1] # "0"
           /\ ip = Replace(Group(ds), <<",">>, <<".">>)

\* C4: for a well-formed display text s, format(normalize(s)) = s, also for
\* amounts of 1000 or more.
C4_IdaEVolta ==
    \A k \in 0..(Len(resultado) - 1) :
        LET v == Get(Colunas, LinhaDe(k), H_VDevido, None)
        IN  (v.k = "str" /\ BemFormada(v.s)) => resultado[k + 1].vDevido = v.s

CustomDaLinha ==
    (pc = "loop" /\ req.modoData = "escolher" /\ Len(resultado') = Len(resultado) + 1) =>
        LET rec == resultado'[Len(resultado')]
            row == LinhaDe(Len(resultado))
            lido == strptime(req.dataCustom)
            atual == DataEmissao(Colunas, row, "atual", req.dataCustom, clock)
        IN  /\ lido.ok => rec.data = Pad2(lido.dt.d) \o <<"/">> \o Pad2(lido.dt.m)
                                         \o <<"/">> \o NatStr(lido.dt.y)
            /\ req.dataCustom = D_Valida => rec.data = D_ValidaBR
            /\ (req.dataCustom = <<>> \/ ~lido.ok) =>
                   (rec.data = atual /\ atual = strftime(Now(clock)))

\* C5: under mode 'escolher' the emission date of every row is customDate
\* reformatted as DD/MM/YYYY when it parses as YYYY-MM-DD ("2024-03-05" gives
\* "05/03/2024"), and otherwise what mode 'atual' gives at the same instant.
C5_DataEscolhida == [][CustomDaLinha]_vars

C5_Witness ==
    /\ pc = "done"
    /\ resp.kind = "ok"
    /\ req.modoData = "escolher"
    /\ req.dataCustom = D_Invalida
    /\ Len(resp.body) = 2
    /\ resp.body[1].data # resp.body[2].data

\* the row label of the k-th row (k from 0)
RotuloDe(k) == req.df.index[k + 1]

\* processing the k-th row raises
LinhaLevantaEm(k) ==
    \E c \in 0..clock, c2 \in 0..clock :
        /\ c <= c2
        /\ PassoLevanta(RotuloDe(k), Colunas, LinhaDe(k), req.modoData, req.dataCustom, c, c2)

\* C6: a processing request is all-or-nothing: when a row raises the response
\* is an error holding no record; records are returned only when every row
\* was processed.
C6_TudoOuNada ==
    /\ resp.kind = "error" => resp.body = <<>>
    /\ resp.kind = "ok" =>
           /\ Len(resp.body) = Len(req.df.rows)
           /\ \A k \in 0..(Len(req.df.rows) - 1) : ~LinhaLevantaEm(k)
    /\ pc = "done" => resp.kind \in {"ok", "error"}

C6_Witness ==
    /\ pc = "done"
    /\ resp.kind = "error"
    /\ resp.status = 500
    /\ Len(resultado) >= 1

\* the record of row k when the clock read c at line 187 and c2 at line 239
RegistroDe(k, c, c2) ==
    LET item == ItemDados(RotuloDe(k), Colunas, LinhaDe(k), req.modoData, req.dataCustom,
                          c, c2)
    IN  [item EXCEPT !.arquivo = Planilha(RotuloDe(k), Colunas, LinhaDe(k), item)]

\* C7: a table of n rows processed successfully gives n records, the k-th
\* built from the k-th row, with sequenceIndex k and displayName
\* "NF-" + (1000 + k) + " - " + the first 30 characters of the customer name.
C7_OrdemENome ==
    resp.kind = "ok" =>
        /\ Len(resp.body) = Len(req.df.rows)
        /\ \A k \in 0..(Len(req.df.rows) - 1) :
               LET rec == resp.body[k + 1]
                   nome == PyStr(rec.respFin)
               IN  /\ rec.temp_id = PyInt(k)
                   /\ \E c \in 0..clock, c2 \in 0..clock :
                          c <= c2 /\ rec = RegistroDe(k, c, c2)
                   /\ rec.nome_arquivo =
                          <<"N", "F", "-">> \o NatStr(1000 + k) \o <<" ", "-", " ">>
                              \o SubSeq(nome, 1, IF Len(nome) < 30 THEN Len(nome) ELSE 30)

\* midnight fell between the two clock readings of a pass: the record's
\* emission date and its due date are different days
MeiaNoiteNaLinha ==
    /\ resp.kind = "ok"
    /\ Len(resp.body) = 1
    /\ req.modoData = "atual"
    /\ ~HasCol(Colunas, H_Venc)
    /\ resp.body[1].data = strftime(Now(0))
    /\ resp.body[1].venc = strftime(Now(1))

\* a '.csv' file whose only data line '5,Bob,Ana' has one field more than
\* its header 'Nome,Cliente' is answered 200 with the record numbered by the
\* line's first field
RotuloDoArquivo ==
    /\ resp.kind = "ok"
    /\ Len(resp.body) = 1
    /\ Colunas = <<H_Nome, H_Cliente>>
    /\ resp.body[1].temp_id = PyInt(5)
    /\ resp.body[1].nome_arquivo = T_NF \o <<"1", "0", "0", "5">> \o T_Sep \o T_Bob

\* a '.csv' file whose data line 'A,Bob,Ana' has a text as its first field
\* beyond the header is answered 500
RotuloTexto ==
    /\ pc = "done"
    /\ resp.kind = "error"
    /\ resp.status = 500
    /\ Len(req.df.index) = 1
    /\ req.df.index[1] = Str(T_A)

\* C8: when the row has no "CPF Resp" column, responsibleTaxId equals the
\* resolved taxId ("CPF/CNPJ", else "CPF", else "-").
C8_CpfRespIgualCpf ==
    \A k \in 0..(Len(resultado) - 1) :
        ~HasCol(Colunas, H_CpfResp) => resultado[k + 1].cpfResp = resultado[k + 1].cpf

\* C9: the description written into the document is the record's species,
\* " - ", and the record's title, placeholders included.
C9_DescricaoDoRegistro ==
    \A k \in 0..(Len(resultado) - 1) :
        LET rec == resultado[k + 1]
        IN  rec.arquivo.A15 = PyStr(rec.especie) \o <<" ", "-", " ">> \o PyStr(rec.titulo)

====
